---- MODULE Spec2Model ----
(***************************************************************************)
(* Model of src/src/deno/BrowserFetcher.ts: the BrowserFetcher class       *)
(* (download, remove, localRevisions, revisionInfo), the URL and path      *)
(* resolver, the archive sniffer and the archive installers.               *)
(*                                                                         *)
(* Strings are sequences of tokens.  A token stands for a run of           *)
(* characters that the code never looks inside ("linux", "arm64",          *)
(* "591479"); the characters the code does look at are tokens of their     *)
(* own: "-" (parseName splits on it), "/" (download takes the last path    *)
(* segment of the URL) and the archive extensions (install dispatches on   *)
(* them, detectAndRenameArchive rewrites them).                            *)
(***************************************************************************)
EXTENDS Integers, Sequences, FiniteSets, TLC

VARIABLES
    product,     \* BrowserFetcher._product
    platform,    \* BrowserFetcher._platform
    downloadHost, \* BrowserFetcher._downloadHost
    buildOs,     \* Deno.build.os of the running host
    rootExists,  \* whether _downloadsFolder exists on disk
    root,        \* the entries of _downloadsFolder: name -> entry
    pc,          \* position of the operation in flight ("idle" when none)
    cur,         \* locals of the download in flight
    mount,       \* the disk image of the installDMG in flight
    copy,        \* the copyDir promise started by installDMG
    last,        \* what the caller saw of the operation that finished last
    pureIn,      \* input of the pure function under check
    pureOut      \* its result

vars == <<product, platform, downloadHost, buildOs, rootExists, root, pc, cur,
          mount, copy, last, pureIn, pureOut>>

fetcherVars == <<product, platform, downloadHost, buildOs>>
pureVars == <<pureIn, pureOut>>

\* null, as a value no record of the model equals
NULL == [null |-> TRUE]

-----------------------------------------------------------------------------
(* Bounds *)

\* how many of the revisions of RevisionList the callers pass to the Fetcher
NumRevisions == 2
\* longest revision string, in tokens, given to the pure functions
MaxRevLen == 2
\* most chunks of one response body
MaxChunks == 2

-----------------------------------------------------------------------------
(* Strings *)

Products == {"chrome", "firefox"}

\* type Platform, as strings
Platforms ==
    { <<"linux">>, <<"linux", "-", "arm64">>, <<"mac">>, <<"win32">>, <<"win64">> }

LinuxArm64 == <<"linux", "-", "arm64">>

IsLinux(p) == p = <<"linux">> \/ p = LinuxArm64
IsWin(p) == p = <<"win32">> \/ p = <<"win64">>

\* the revisions the callers use, in the order the bound admits them
RevisionList ==
    << <<"591479">>, <<"arm64", "-", "591480">>, <<"591480">>, <<"1", "-", "2">> >>

Revisions == { RevisionList[i] : i \in 1..NumRevisions }

\* tokens of the revision strings given to the pure functions
RevChars == {"591479", "591480", "-", "arm64"}

RECURSIVE StringsUpTo(_, _)
StringsUpTo(chars, n) ==
    IF n = 0 THEN { <<>> }
    ELSE LET shorter == StringsUpTo(chars, n - 1)
         IN  shorter \cup { Append(s, c) : s \in shorter, c \in chars }

PureRevisions == StringsUpTo(RevChars, MaxRevLen)

\* String.prototype.split(sep): the segments of s between the sep tokens
Split(s, sep) ==
    LET at == { i \in 1..Len(s) : s[i] = sep }
        n == Cardinality(at)
        \* where the k-th separator stands; the ends of s stand for the 0th
        \* and the one after the last
        cut(k) == IF k = 0 THEN 0
                  ELSE IF k = n + 1 THEN Len(s) + 1
                  ELSE CHOOSE i \in at : Cardinality({ j \in at : j < i }) = k - 1
    IN  [k \in 1..(n + 1) |-> SubSeq(s, cut(k - 1) + 1, cut(k) - 1)]

LastOf(seq) == seq[Len(seq)]

\* String.prototype.endsWith(ext), ext one of the extension tokens
EndsWith(s, ext) == Len(s) > 0 /\ LastOf(s) = ext

\* parseInt(revision, 10): the value of the leading digits, after a sign if
\* there is one, NaN (-1) when none
NaN == -1
DigitsValue(token) ==
    CASE token = "591479" -> 591479
      [] token = "591480" -> 591480
      [] token = "1" -> 1
      [] token = "2" -> 2
      [] OTHER -> NaN
parseInt(s) ==
    IF Len(s) = 0 THEN NaN
    ELSE IF s[1] = "-"
    THEN IF Len(s) = 1 \/ DigitsValue(s[2]) = NaN THEN NaN ELSE 0 - DigitsValue(s[2])
    ELSE DigitsValue(s[1])

-----------------------------------------------------------------------------
(* URL and path resolver *)

\* browserConfig[product].host
browserConfig(prod) ==
    IF prod = "chrome"
    THEN <<"https:", "/", "/", "storage.googleapis.com">>
    ELSE <<"https:", "/", "/", "archive.mozilla.org", "/", "pub", "/", "firefox", "/",
           "nightly", "/", "latest", "-", "mozilla", "-", "central">>

\* keys of downloadURLs[product]; a lookup of any other own key is undefined,
\* a lookup of a key inherited from Object.prototype is truthy
ObjectPrototypeKeys == { <<"constructor">>, <<"toString">>, <<"valueOf">> }

downloadURLsHas(prod, plat) ==
    prod \in Products /\ plat \in Platforms \cup ObjectPrototypeKeys

\* archiveName whose Windows name changes at 591479 instead of after it
archiveNameFrom591479(prod, plat, revision) ==
    IF prod = "chrome"
    THEN CASE plat = <<"linux">> -> <<"chrome", "-", "linux">>
           [] plat = LinuxArm64 -> <<"chrome", "-", "linux">>
           [] plat = <<"mac">> -> <<"chrome", "-", "mac">>
           [] IsWin(plat) ->
                IF parseInt(revision) >= 591479
                THEN <<"chrome", "-", "win">>
                ELSE <<"chrome", "-", "win32">>
    ELSE plat

archiveName(prod, plat, revision) ==
    IF prod = "chrome"
    THEN CASE plat = <<"linux">> -> <<"chrome", "-", "linux">>
           [] plat = LinuxArm64 -> <<"chrome", "-", "linux">>
           [] plat = <<"mac">> -> <<"chrome", "-", "mac">>
           [] IsWin(plat) ->
                IF parseInt(revision) > 591479
                THEN <<"chrome", "-", "win">>
                ELSE <<"chrome", "-", "win32">>
    ELSE plat

\* sprintf's %d of a string argument: the number it coerces to, NaN when none
fmtD(revision) ==
    IF Len(revision) = 1 /\ parseInt(revision) # NaN THEN revision ELSE <<"NaN">>

ChromeDir(plat) ==
    CASE plat = <<"linux">> -> <<"Linux_x64">>
      [] plat = LinuxArm64 -> <<"Linux_arm64">>
      [] plat = <<"mac">> -> <<"Mac">>
      [] plat = <<"win32">> -> <<"Win">>
      [] plat = <<"win64">> -> <<"Win_x64">>

FirefoxSuffix(plat) ==
    CASE plat = <<"linux">> -> <<"-", "x86_64", ".tar.bz2">>
      [] plat = LinuxArm64 -> <<"-", "aarch64", ".tar.bz2">>
      [] plat = <<"mac">> -> <<".dmg">>
      [] IsWin(plat) -> <<".zip">>

downloadURL(prod, plat, host, revision) ==
    IF prod = "firefox" /\ plat = LinuxArm64
    THEN <<"https:", "/", "/", "download.mozilla.org", "/",
           "?product=firefox-nightly-latest-ssl&os=linux64-aarch64">>
    ELSE IF prod = "firefox" /\ plat = <<"linux">>
    THEN <<"https:", "/", "/", "download.mozilla.org", "/",
           "?product=firefox-nightly-latest-ssl&os=linux64">>
    ELSE IF prod = "chrome"
    THEN host \o <<"/", "chromium-browser-snapshots", "/">> \o ChromeDir(plat)
              \o <<"/">> \o fmtD(revision) \o <<"/">>
              \o archiveName(prod, plat, revision) \o <<".zip">>
    ELSE host \o <<"/", "firefox", "-">> \o revision \o <<".en", "-", "US.">>
              \o archiveName(prod, plat, revision) \o FirefoxSuffix(plat)

\* revisionInfo without its linux-arm64 branches
revisionInfoStatusNoArm64(prod, plat) ==
    IF prod \notin Products THEN "UnsupportedProduct"
    ELSE IF plat = <<"mac">> \/ plat = <<"linux">> \/ IsWin(plat) THEN "ok"
    ELSE "UnsupportedPlatform"

\* how revisionInfo ends for a product and platform: one branch per platform
\* it knows, a throw for every other
revisionInfoStatus(prod, plat) ==
    IF prod \notin Products THEN "UnsupportedProduct"
    ELSE IF plat = <<"mac">> \/ IsLinux(plat) \/ IsWin(plat) THEN "ok"
    ELSE "UnsupportedPlatform"

\* BrowserFetcher._getFolderPath, relative to _downloadsFolder
getFolderPath(plat, revision) == plat \o <<"-">> \o revision

\* the path revisionInfo resolves the executable to, relative to _downloadsFolder
executablePath(prod, plat, revision) ==
    LET folderPath == getFolderPath(plat, revision) IN
    IF prod = "chrome"
    THEN CASE plat = <<"mac">> ->
                folderPath \o <<"/">> \o archiveName(prod, plat, revision)
                    \o <<"/", "Chromium.app", "/", "Contents", "/", "MacOS", "/", "Chromium">>
           [] IsLinux(plat) ->
                folderPath \o <<"/">> \o archiveName(prod, plat, revision) \o <<"/", "chrome">>
           [] IsWin(plat) ->
                folderPath \o <<"/">> \o archiveName(prod, plat, revision)
                    \o <<"/", "chrome.exe">>
    ELSE CASE plat = <<"mac">> ->
                folderPath \o <<"/", "Firefox Nightly.app", "/", "Contents", "/", "MacOS",
                                "/", "firefox">>
           [] IsLinux(plat) -> folderPath \o <<"/", "firefox", "/", "firefox">>
           [] IsWin(plat) -> folderPath \o <<"/", "firefox", "/", "firefox.exe">>

parseName(prod, name) ==
    LET splits == Split(name, "-")
        parsed ==
            IF Len(splits) = 2
            THEN [platform |-> splits[1], revision |-> splits[2]]
            ELSE IF Len(splits) = 3 /\ splits[1] = <<"linux">> /\ splits[2] = <<"arm64">>
            THEN [platform |-> LinuxArm64, revision |-> splits[3]]
            ELSE NULL
    IN  IF parsed = NULL THEN NULL
        ELSE IF ~downloadURLsHas(prod, parsed.platform) THEN NULL
        ELSE [product |-> prod, platform |-> parsed.platform, revision |-> parsed.revision]


-----------------------------------------------------------------------------
(* The download root on disk *)

\* the container formats an archive's leading bytes can announce
Magics == {"xz", "gzip", "bzip2", "zip", "other"}

\* the state of the file at executablePath inside an installed folder
ExeStates == {"absent", "0644", "0755"}

\* a directory: whether an extraction into it ran to its end, and the file at
\* the executable path
Dir(extracted, exe) == [kind |-> "dir", extracted |-> extracted, exe |-> exe]

\* a regular file; the only file whose bytes are ever read is the archive of
\* the download in flight, and cur holds them
File == [kind |-> "file", extracted |-> FALSE, exe |-> "absent"]

\* pathJoin(_downloadsFolder, name) names a direct child of the folder: name
\* has no separator and is no reference to the folder or to its parent
IsChildName(name) ==
    /\ name \notin {<<>>, <<".">>, <<"..">>}
    /\ \A i \in DOMAIN name : name[i] \notin {"/", ".."}

\* Deno.readDirSync(_downloadsFolder): the names of its direct children; fs
\* is keyed by paths relative to the folder, a key with ".." lies outside it
readDirSync(fs) == { name \in DOMAIN fs : IsChildName(name) }

\* exists(path) for a path relative to _downloadsFolder
exists(fs, name) == name \in DOMAIN fs

\* Deno.remove(path, {recursive: true})
DenoRemove(fs, name) == [n \in DOMAIN fs \ {name} |-> fs[n]]

\* an entry written at name, replacing what was there
Put(fs, name, entry) == [n \in DOMAIN fs \cup {name} |-> IF n = name THEN entry ELSE fs[n]]

\* Deno.mkdir(path, {recursive: true}): an existing directory is kept
DenoMkdir(fs, name) == IF exists(fs, name) THEN fs ELSE Put(fs, name, Dir(FALSE, "absent"))

EmptyFs == [n \in {} |-> Dir(FALSE, "absent")]

-----------------------------------------------------------------------------
(* Results of the operations *)

\* existsSync that answers from what the last download returned for the folder
existsSyncCached(fs, folderPath) ==
    IF last.op = "download" /\ last.status = "ok" /\ last.info.folderPath = folderPath
    THEN last.info.local
    ELSE folderPath \in DOMAIN fs

\* existsSync(folderPath) of revisionInfo
existsSync(fs, folderPath) == folderPath \in DOMAIN fs

\* BrowserFetcher.revisionInfo(revision) on the disk state fs
revisionInfo(fs, revision) ==
    [revision |-> revision,
     executablePath |-> executablePath(product, platform, revision),
     folderPath |-> getFolderPath(platform, revision),
     local |-> existsSync(fs, getFolderPath(platform, revision)),
     url |-> downloadURL(product, platform, downloadHost, revision),
     product |-> product]

\* localRevisions without its filter on the platform
localRevisionsOfAnyPlatform(folderExists, fs) ==
    IF ~folderExists THEN {}
    ELSE LET entries == { parseName(product, fileName) : fileName \in readDirSync(fs) }
         IN  { entry.revision : entry \in { e \in entries : e # NULL } }

\* BrowserFetcher.localRevisions() on the disk state fs
localRevisions(folderExists, fs) ==
    IF ~folderExists THEN {}
    ELSE LET entries == { parseName(product, fileName) : fileName \in readDirSync(fs) }
         IN  { entry.revision :
                 entry \in { e \in entries : e # NULL /\ e.platform = platform } }

NoInfo ==
    [revision |-> <<>>, executablePath |-> <<>>, folderPath |-> <<>>, local |-> FALSE,
     url |-> <<>>, product |-> "none"]

\* what the caller of an operation observed: how it ended, what it returned
\* and the requests it issued; for canDownload also the URL of its request,
\* the status of the response and the boolean returned; for download also
\* the failure its last catch block logged
Outcome(op, revision, status, info, heads, gets, prior) ==
    [op |-> op, revision |-> revision, status |-> status, info |-> info,
     heads |-> heads, gets |-> gets, prior |-> prior,
     url |-> <<>>, httpStatus |-> 0, result |-> FALSE, caught |-> "none"]

NoOutcome == Outcome("none", <<>>, "none", NoInfo, 0, 0, NoInfo)

\* magic: the leading bytes of the response body; written: a chunk was
\* written to the archive (it is not empty);
\* format: what the sniffer decided;
\* caught: a failure that a catch block took, or that rejected a promise
\* nobody holds, instead of being raised to download;
\* status: the status of the GET response (0 before there is one); drained:
\* response.arrayBuffer() consumed the body; contentLength: the header of that
\* name ("" when the server sent none); total, received: totalBytes and
\* downloadedBytes of downloadFile; body: the sizes of the chunks received;
\* calls, progress: the calls of progressCallback and the arguments of the
\* last one.  What belongs to downloadFile is dropped when it returns;
\* exits: the exit codes of the subprocesses the extractor spawned, in order;
\* prior: what the call before this one returned, when that was a download of
\* the same revision that returned without raising
NoProgress == [bytes |-> 0, total |-> 0]

NoCur ==
    [revision |-> <<>>, fileName |-> <<>>, actualPath |-> <<>>, err |-> "none",
     heads |-> 0, gets |-> 0, magic |-> "none", written |-> FALSE, format |-> "none",
     caught |-> "none", status |-> 0, drained |-> FALSE, contentLength |-> <<>>,
     total |-> 0, received |-> 0, body |-> <<>>, calls |-> 0, progress |-> NoProgress,
     exits |-> <<>>, prior |-> NoInfo]

\* attached: hdiutil attach attached the image; mountPath: installDMG found
\* the volume path in its output; detaches: the runs of hdiutil detach
NoMount == [attached |-> FALSE, mountPath |-> FALSE, detaches |-> 0]


-----------------------------------------------------------------------------
(* The Fetcher and its host *)

\* the values of Deno.build.os and of Deno.build.arch
BuildOs == {"linux", "darwin", "windows"}
BuildArch == {"x86_64", "aarch64"}

\* new BrowserFetcher({product, platform}) on some host, an empty disk
Init ==
    /\ product \in Products
    /\ platform \in Platforms
    /\ downloadHost = browserConfig(product)
    /\ buildOs \in BuildOs
    /\ rootExists = FALSE
    /\ root = EmptyFs
    /\ pc = "idle"
    /\ cur = NoCur
    /\ mount = NoMount
    /\ copy = {}
    /\ last = NoOutcome
    /\ pureIn = NULL
    /\ pureOut = NULL

\* the operation in flight ends: the caller observes outcome o
Finish(o) ==
    /\ pc' = "idle"
    /\ cur' = NoCur
    /\ last' = o

-----------------------------------------------------------------------------
(* BrowserFetcher.remove *)

\* remove without its assert: a missing folder is passed over in silence
removeWithoutAssert(revision) ==
    LET folderPath == getFolderPath(platform, revision) IN
    /\ pc = "idle"
    /\ root' = DenoRemove(root, folderPath)
    /\ Finish(Outcome("remove", revision, "ok", NoInfo, 0, 0, NoInfo))
    /\ UNCHANGED <<fetcherVars, rootExists, mount, copy, pureVars>>

remove(revision) ==
    LET folderPath == getFolderPath(platform, revision) IN
    /\ pc = "idle"
    /\ IF ~exists(root, folderPath)
       THEN /\ Finish(Outcome("remove", revision, "NotInstalled", NoInfo, 0, 0, NoInfo))
            /\ UNCHANGED root
       ELSE /\ root' = DenoRemove(root, folderPath)
            /\ Finish(Outcome("remove", revision, "ok", NoInfo, 0, 0, NoInfo))
    /\ UNCHANGED <<fetcherVars, rootExists, mount, copy, pureVars>>


-----------------------------------------------------------------------------
(* BrowserFetcher.canDownload *)

\* the statuses a server answers with
HttpStatuses == {200, 204, 404}

\* canDownload that takes every answer but 404 for a revision on offer
canDownloadUnless404(revision) ==
    /\ pc = "idle"
    /\ \/ Finish(Outcome("canDownload", revision, "FetchFailed", NoInfo, 1, 0, NoInfo))
       \/ \E status \in HttpStatuses :
            Finish([Outcome("canDownload", revision, "ok", NoInfo, 1, 0, NoInfo) EXCEPT
                      !.url = downloadURL(product, platform, downloadHost,
                                          revision),
                      !.httpStatus = status,
                      !.result = (status # 404)])
    /\ UNCHANGED <<fetcherVars, rootExists, root, mount, copy, pureVars>>

\* fetch(url, {method: "head"}) and the comparison of the status with 200
canDownload(revision) ==
    /\ pc = "idle"
    /\ \/ Finish(Outcome("canDownload", revision, "FetchFailed", NoInfo, 1, 0, NoInfo))
       \/ \E status \in HttpStatuses :
            Finish([Outcome("canDownload", revision, "ok", NoInfo, 1, 0, NoInfo) EXCEPT
                      !.url = downloadURL(product, platform, downloadHost,
                                          revision),
                      !.httpStatus = status,
                      !.result = (status = 200)])
    /\ UNCHANGED <<fetcherVars, rootExists, root, mount, copy, pureVars>>

-----------------------------------------------------------------------------
(* BrowserFetcher.download: file name and existence check *)

IsFirefoxLinux == product = "firefox" /\ IsLinux(platform)

\* url.split("/").pop()
LastSegment(url) == LastOf(Split(url, "/"))

\* `firefox-${revision}.en-US.linux-${arch}.tar.bz2`
FirefoxLinuxFileName(revision) ==
    <<"firefox", "-">> \o revision \o <<".en", "-", "US.linux", "-">>
        \o (IF platform = LinuxArm64 THEN <<"aarch64">> ELSE <<"x86_64">>)
        \o <<".tar.bz2">>

\* the file names a server sends in Content-Disposition; without the header,
\* or with an empty name in it, actualFileName stays empty
ContentDispositionNames ==
    { <<"firefox", "-", "nightly", ".tar.xz">>, <<"firefox", "-", "nightly", ".tar">>,
      <<"linux", "-", "591479">>, <<"..", "/", "nightly">> }

\* the call: url and the default file name are computed
downloadStart(revision) ==
    /\ pc = "idle"
    /\ cur' = [NoCur EXCEPT
                 !.revision = revision,
                 !.prior =
                     IF last.op = "download" /\ last.status = "ok"
                        /\ last.revision = revision
                     THEN last.info ELSE NoInfo,
                 !.fileName =
                     IF IsFirefoxLinux THEN FirefoxLinuxFileName(revision)
                     ELSE LastSegment(downloadURL(product, platform,
                                                  downloadHost, revision))]
    /\ pc' = IF IsFirefoxLinux THEN "head" ELSE "check"
    /\ last' = NoOutcome
    /\ UNCHANGED <<fetcherVars, rootExists, root, mount, copy, pureVars>>

\* fetch(url, {method: "HEAD"}) and the Content-Disposition header
downloadHead ==
    /\ pc = "head"
    /\ \/ Finish(Outcome("download", cur.revision, "FetchFailed", NoInfo, 1, 0, cur.prior))
       \/ \E actualFileName \in {<<>>} \cup ContentDispositionNames :
            /\ cur' = [cur EXCEPT
                         !.heads = 1,
                         !.fileName = IF actualFileName # <<>> THEN actualFileName ELSE @]
            /\ pc' = "check"
            /\ UNCHANGED last
    /\ UNCHANGED <<fetcherVars, rootExists, root, mount, copy, pureVars>>

\* download that returns early only for a folder whose installation completed
downloadCheckInstalled ==
    LET outputPath == getFolderPath(platform, cur.revision) IN
    /\ pc = "check"
    /\ IF exists(root, outputPath) /\ root[outputPath].extracted
       THEN /\ Finish(Outcome("download", cur.revision, "ok",
                              revisionInfo(root, cur.revision), cur.heads, 0,
                              cur.prior))
            /\ UNCHANGED rootExists
       ELSE /\ rootExists' = TRUE
            /\ pc' = "get"
            /\ UNCHANGED <<cur, last>>
    /\ UNCHANGED <<fetcherVars, root, mount, copy, pureVars>>

\* the existence check, the creation of _downloadsFolder and the arm64 check;
\* Deno.build.arch is read nowhere else, so the host's value is drawn here
downloadCheck ==
    LET outputPath == getFolderPath(platform, cur.revision) IN
    /\ pc = "check"
    /\ IF exists(root, outputPath)
       THEN /\ Finish(Outcome("download", cur.revision, "ok",
                              revisionInfo(root, cur.revision), cur.heads, 0,
                              cur.prior))
            /\ UNCHANGED rootExists
       ELSE /\ rootExists' = TRUE
            /\ IF (\E buildArch \in BuildArch : buildArch = "arm64") /\ product = "chrome"
               THEN Finish(Outcome("download", cur.revision, "UnsupportedArchitecture",
                                   NoInfo, cur.heads, 0, cur.prior))
               ELSE pc' = "get" /\ UNCHANGED <<cur, last>>
    /\ UNCHANGED <<fetcherVars, root, mount, copy, pureVars>>

-----------------------------------------------------------------------------
(* downloadFile *)

\* an exception is raised inside download's try block: control goes to finally
Throw(err) ==
    /\ cur' = [cur EXCEPT !.err = err]
    /\ pc' = "finally"

\* the content-length headers of a response; "" stands for none
\* (response.headers.get("content-length") ?? "")
ContentLengths == { <<>>, <<"2">> }

\* chunk.length of the chunks of a body
ChunkSizes == {1, 2}

\* fetch(url, {method: "GET"}), the status check with the drain of the body,
\* totalBytes and Deno.create
downloadFileGet ==
    /\ pc = "get"
    /\ \/ /\ cur' = [cur EXCEPT !.err = "FetchFailed", !.gets = 1]
          /\ pc' = "finally"
          /\ UNCHANGED root
       \/ /\ \E status \in HttpStatuses \ {200} :
               cur' = [cur EXCEPT !.err = "DownloadFailed", !.gets = 1,
                                  !.status = status, !.drained = TRUE]
          /\ pc' = "finally"
          /\ UNCHANGED root
       \/ \E contentLength \in ContentLengths :
            IF exists(root, cur.fileName) /\ root[cur.fileName].kind = "dir"
            THEN /\ cur' = [cur EXCEPT !.err = "CreateFailed", !.gets = 1, !.status = 200]
                 /\ pc' = "finally"
                 /\ UNCHANGED root
            ELSE /\ root' = Put(root, cur.fileName, File)
                 /\ cur' = [cur EXCEPT !.gets = 1, !.status = 200,
                                       !.contentLength = contentLength,
                                       !.total = parseInt(contentLength)]
                 /\ pc' = "stream"
    /\ UNCHANGED <<fetcherVars, rootExists, mount, copy, last, pureVars>>

\* downloadFile returns or raises: its locals are gone
EndDownloadFile(c) ==
    [c EXCEPT !.contentLength = <<>>, !.total = 0, !.received = 0, !.body = <<>>,
              !.calls = 0, !.progress = NoProgress]

\* downloadedBytes that forgets the chunks before this one
AddChunkAssign(downloadedBytes, size) == size

\* downloadedBytes += chunk.length
AddChunk(downloadedBytes, size) == downloadedBytes + size

\* one iteration of the loop over response.body (downloadedBytes grows,
\* progressCallback is called, the chunk is written), its end, or its failure
downloadFileChunk ==
    /\ pc = "stream"
    /\ \/ /\ Len(cur.body) < MaxChunks
          /\ \E magic \in Magics, size \in ChunkSizes :
               LET downloadedBytes == AddChunk(cur.received, size) IN
               cur' = [cur EXCEPT !.written = TRUE,
                                  !.magic = IF cur.body = <<>> THEN magic ELSE @,
                                  !.body = Append(@, size),
                                  !.received = downloadedBytes,
                                  !.calls = @ + 1,
                                  !.progress = [bytes |-> downloadedBytes,
                                                total |-> cur.total]]
          /\ UNCHANGED <<pc, root>>
       \/ /\ cur' = [EndDownloadFile(cur) EXCEPT !.actualPath = cur.fileName]
          /\ pc' = IF IsFirefoxLinux THEN "sniff" ELSE "install"
          /\ UNCHANGED root
       \/ /\ cur' = [EndDownloadFile(cur) EXCEPT !.err = "StreamFailed"]
          /\ pc' = "finally"
          /\ UNCHANGED root
    /\ UNCHANGED <<fetcherVars, rootExists, mount, copy, last, pureVars>>


-----
(* detectAndRenameArchive *)

\* what the file command prints about the archive: the substrings of interest
\* its output contains, or "failed" when the command cannot be run
FileOutputs == (SUBSET {"gzip", "bzip2", "Zip"}) \cup {{"failed"}}

\* the magic number at the start of the buffer, the checks in the order of
\* the code, xz taken for any buffer that starts with fd 37
MagicOfTwoBytes(buffer) ==
    IF buffer[1] = 253 /\ buffer[2] = 55 THEN "xz"
    ELSE IF buffer[1] = 31 /\ buffer[2] = 139 THEN "gzip"
    ELSE IF buffer[1] = 66 /\ buffer[2] = 90 THEN "bzip2"
    ELSE IF buffer[1] = 80 /\ buffer[2] = 75 THEN "zip"
    ELSE "other"

\* the magic number at the start of the buffer, the checks in the order of
\* the code: fd 37 7a 58 5a 00, 1f 8b, 42 5a (BZ), 50 4b (PK)
MagicOf(buffer) ==
    IF /\ buffer[1] = 253 /\ buffer[2] = 55 /\ buffer[3] = 122
       /\ buffer[4] = 88 /\ buffer[5] = 90 /\ buffer[6] = 0
    THEN "xz"
    ELSE IF buffer[1] = 31 /\ buffer[2] = 139 THEN "gzip"
    ELSE IF buffer[1] = 66 /\ buffer[2] = 90 THEN "bzip2"
    ELSE IF buffer[1] = 80 /\ buffer[2] = 75 THEN "zip"
    ELSE "other"

\* the file command is run only past the four magic-number checks
FileCommandRuns(header) == header = "other"

\* the first bytes read into the zero-filled buffer
HeaderOf(magic, written) == IF ~written THEN "other" ELSE magic

\* classify that looks for bzip2 in the output of the file command first
classifyBzip2First(header, fileOutput) ==
    CASE header = "xz" -> "xz"
      [] header = "gzip" -> "gzip"
      [] header = "bzip2" -> "bzip2"
      [] header = "zip" -> "zip"
      [] OTHER ->
           IF "bzip2" \in fileOutput THEN "bzip2"
           ELSE IF "gzip" \in fileOutput THEN "gzip"
           ELSE IF "Zip" \in fileOutput THEN "zip"
           ELSE "unknown"

\* the format detectAndRenameArchive decides on: by the magic number, else by
\* the output of the file command, else not at all
classify(header, fileOutput) ==
    CASE header = "xz" -> "xz"
      [] header = "gzip" -> "gzip"
      [] header = "bzip2" -> "bzip2"
      [] header = "zip" -> "zip"
      [] OTHER ->
           IF "gzip" \in fileOutput THEN "gzip"
           ELSE IF "bzip2" \in fileOutput THEN "bzip2"
           ELSE IF "Zip" \in fileOutput THEN "zip"
           ELSE "unknown"

\* the extension that names a format
ExtensionOf(format) ==
    CASE format = "xz" -> ".tar.xz"
      [] format = "gzip" -> ".tar.gz"
      [] format = "bzip2" -> ".tar.bz2"
      [] format = "zip" -> ".zip"

\* archivePath.replace(/\.tar\.bz2$/, ext)
ReplaceTarBz2(path, ext) ==
    IF EndsWith(path, ".tar.bz2") THEN SubSeq(path, 1, Len(path) - 1) \o <<ext>>
    ELSE path

\* RenamedPath that takes an undetected format for gzip
RenamedPathGuessGzip(archivePath, format) ==
    IF format = "bzip2" THEN archivePath
    ELSE ReplaceTarBz2(archivePath,
                       IF format = "unknown" THEN ".tar.gz" ELSE ExtensionOf(format))

\* the path detectAndRenameArchive returns for archivePath: bzip2 and an
\* undetected format keep the name
RenamedPath(archivePath, format) ==
    IF format \in {"bzip2", "unknown"} THEN archivePath
    ELSE ReplaceTarBz2(archivePath, ExtensionOf(format))

\* Deno.rename(from, to) of a file; renaming onto a directory fails
RenameFails(fs, from, to) == from # to /\ exists(fs, to) /\ fs[to].kind = "dir"

DenoRename(fs, from, to) ==
    IF from = to THEN fs ELSE DenoRemove(Put(fs, to, fs[from]), from)

\* the magic-number branches rename outside any try block; the branches on
\* the output of the file command run inside one, whose catch logs a failure
\* of the command or of the rename and goes on with the name unchanged
detectAndRenameArchive ==
    /\ pc = "sniff"
    /\ \E fileOutput \in FileOutputs :
         LET archivePath == cur.fileName
             header == HeaderOf(cur.magic, cur.written)
             format == classify(header, fileOutput)
             newPath == RenamedPath(archivePath, format)
         IN  IF header = "other" /\ fileOutput = {"failed"}
             THEN /\ cur' = [cur EXCEPT !.format = format, !.actualPath = archivePath,
                                        !.caught = "FileCommandFailed"]
                  /\ pc' = "install"
                  /\ UNCHANGED root
             ELSE IF RenameFails(root, archivePath, newPath)
             THEN IF header = "other"
                  THEN /\ cur' = [cur EXCEPT !.format = format,
                                             !.actualPath = archivePath,
                                             !.caught = "RenameFailed"]
                       /\ pc' = "install"
                       /\ UNCHANGED root
                  ELSE /\ cur' = [cur EXCEPT !.format = format, !.err = "RenameFailed"]
                       /\ pc' = "finally"
                       /\ UNCHANGED root
             ELSE /\ root' = DenoRename(root, archivePath, newPath)
                  /\ cur' = [cur EXCEPT !.format = format, !.actualPath = newPath]
                  /\ pc' = "install"
    /\ UNCHANGED <<fetcherVars, rootExists, mount, copy, last, pureVars>>

-----------------------------------------------------------------------------
(* install and the extractors *)

TarExtensions == {".tar.bz2", ".tar.gz", ".tar.xz"}

\* the handler install dispatches archivePath to
InstallerOf(archivePath) ==
    IF EndsWith(archivePath, ".zip") THEN "extractZip"
    ELSE IF EndsWith(archivePath, ".tar.bz2") THEN "extractTarBz2"
    ELSE IF EndsWith(archivePath, ".tar.gz") THEN "extractTarGz"
    ELSE IF EndsWith(archivePath, ".tar.xz") THEN "extractTarXz"
    ELSE IF EndsWith(archivePath, ".dmg") THEN "installDMG"
    ELSE "unsupported"

\* the container format each extractor's tools read
FormatOf(installer) ==
    CASE installer = "extractZip" -> "zip"
      [] installer = "extractTarBz2" -> "bzip2"
      [] installer = "extractTarGz" -> "gzip"
      [] installer = "extractTarXz" -> "xz"

\* the tools can succeed on the archive: it is not empty, and its leading bytes
\* announce their format or, for the tools that also read containers without
\* one of the four magic numbers (bzcat does not), no format at all
Extractable(magic, written, installer) ==
    /\ written
    /\ \/ magic = FormatOf(installer)
       \/ magic = "other" /\ installer # "extractTarBz2"

\* install that makes the destination folder before it looks at the extension
installMkdirFirst ==
    LET outputPath == getFolderPath(platform, cur.revision)
        installer == InstallerOf(cur.actualPath)
    IN
    /\ pc = "install"
    /\ IF exists(root, outputPath) /\ root[outputPath].kind = "file"
       THEN Throw("MkdirFailed") /\ UNCHANGED root
       ELSE /\ root' = DenoMkdir(root, outputPath)
            /\ IF installer = "unsupported" THEN Throw("UnsupportedArchiveFormat")
               ELSE /\ pc' = IF installer = "installDMG" THEN "attach" ELSE "extract"
                    /\ UNCHANGED cur
    /\ UNCHANGED <<fetcherVars, rootExists, mount, copy, last, pureVars>>

\* install: the dispatch on the extension; the tar extractors and the dmg
\* branch first create the destination folder
install ==
    LET outputPath == getFolderPath(platform, cur.revision)
        installer == InstallerOf(cur.actualPath)
    IN
    /\ pc = "install"
    /\ CASE installer = "unsupported" ->
              Throw("UnsupportedArchiveFormat") /\ UNCHANGED root
         [] installer = "extractZip" ->
              pc' = "extract" /\ UNCHANGED <<cur, root>>
         [] OTHER ->
              IF exists(root, outputPath) /\ root[outputPath].kind = "file"
              THEN Throw("MkdirFailed") /\ UNCHANGED root
              ELSE /\ root' = DenoMkdir(root, outputPath)
                   /\ pc' = IF installer = "installDMG" THEN "attach" ELSE "extract"
                   /\ UNCHANGED cur
    /\ UNCHANGED <<fetcherVars, rootExists, mount, copy, last, pureVars>>

\* the exit codes of an extractor's subprocesses when all succeed: bzcat and
\* tar for .tar.bz2, tar for .tar.gz and .tar.xz, none for .zip
ExitsOk(installer) ==
    CASE installer = "extractTarBz2" -> <<0, 0>>
      [] installer \in {"extractTarGz", "extractTarXz"} -> <<0>>
      [] OTHER -> <<>>

\* and when one fails: the subprocesses after it are not spawned
ExitsFailed(installer) ==
    CASE installer = "extractTarBz2" -> { <<1>>, <<0, 1>> }
      [] installer \in {"extractTarGz", "extractTarXz"} -> { <<1>> }
      [] OTHER -> { <<>> }

\* the asserts on the exit statuses, left out
assertSuccessIgnored(exits) == "none"

\* assert(bzcatStatus.success, "failed bzcat"), assert(untarStatus.success,
\* "failed untar"): the error they raise, "none" when every status is 0
assertSuccess(exits) ==
    IF \E i \in DOMAIN exits : exits[i] # 0 THEN "ExtractionFailed" ELSE "none"

\* extractZip, extractTarBz2, extractTarGz, extractTarXz after the mkdir: the
\* tools run to their end and their status is checked.  A failed tool leaves
\* what it wrote; readZip fails before anything is written, unzip after
extract ==
    LET outputPath == getFolderPath(platform, cur.revision)
        installer == InstallerOf(cur.actualPath)
    IN
    /\ pc = "extract"
    /\ \/ /\ exists(root, cur.actualPath)
          /\ root[cur.actualPath].kind = "file"
          /\ Extractable(cur.magic, cur.written, installer)
          /\ ~(exists(root, outputPath) /\ root[outputPath].kind = "file")
          /\ \E exe \in ExeStates : root' = Put(root, outputPath, Dir(TRUE, exe))
          /\ pc' = "finally"
          /\ cur' = [cur EXCEPT !.exits = ExitsOk(installer)]
       \/ /\ \E exits \in ExitsFailed(installer) :
               cur' = [cur EXCEPT !.exits = exits,
                                  !.err = IF installer = "extractZip"
                                          THEN "ExtractionFailed"
                                          ELSE assertSuccess(exits)]
          /\ pc' = "finally"
          /\ \/ /\ installer = "extractZip"
                /\ UNCHANGED root
             \/ /\ installer = "extractZip" => Extractable(cur.magic, cur.written, installer)
                /\ ~(exists(root, outputPath) /\ root[outputPath].kind = "file")
                /\ \E exe \in ExeStates : root' = Put(root, outputPath, Dir(FALSE, exe))
    /\ UNCHANGED <<fetcherVars, rootExists, mount, copy, last, pureVars>>


-----------------------------------------------------------------------------
(* installDMG *)


\* hdiutil attach and the search of its output for the volume path; without
\* a volume path the finally block has no mountPath and does not detach.
\* hdiutil is a program of macOS: elsewhere Deno.Command cannot start it
installDMGAttach ==
    /\ pc = "attach"
    /\ \/ /\ buildOs = "darwin"
          /\ mount' = [attached |-> TRUE, mountPath |-> TRUE, detaches |-> 0]
          /\ pc' = "scan"
          /\ UNCHANGED cur
       \/ /\ buildOs = "darwin"
          /\ \E attached \in BOOLEAN :
               mount' = [attached |-> attached, mountPath |-> FALSE, detaches |-> 0]
          /\ cur' = [cur EXCEPT !.err = "VolumeNotFound"]
          /\ pc' = "installed"
       \/ /\ buildOs # "darwin"
          /\ mount' = NoMount
          /\ cur' = [cur EXCEPT !.err = "CommandNotFound"]
          /\ pc' = "installed"
    /\ UNCHANGED <<fetcherVars, rootExists, root, copy, last, pureVars>>

\* the loop over Deno.readDir(mountPath) and the call of copyDir, which is
\* not awaited: the copy runs on while installDMG goes to its finally block
installDMGScan ==
    LET outputPath == getFolderPath(platform, cur.revision) IN
    /\ pc = "scan"
    /\ pc' = "detach"
    /\ \/ /\ cur' = [cur EXCEPT !.err = "ReadDirFailed"]
          /\ UNCHANGED copy
       \/ /\ cur' = [cur EXCEPT !.err = "AppNotFound"]
          /\ UNCHANGED copy
       \/ /\ copy' = copy \cup {outputPath}
          /\ UNCHANGED cur
    /\ UNCHANGED <<fetcherVars, rootExists, root, mount, last, pureVars>>

\* the finally block: hdiutil detach and the assert on its status; a copy
\* still reading the volume ends with it (its promise is rejected)
installDMGDetach ==
    LET outputPath == getFolderPath(platform, cur.revision) IN
    /\ pc = "detach"
    /\ mount.mountPath
    /\ pc' = "installed"
    /\ \/ /\ mount' = [mount EXCEPT !.detaches = @ + 1]
          /\ copy' = copy \ {outputPath}
          /\ cur' = IF outputPath \in copy
                    THEN [cur EXCEPT !.caught = "CopyFailed"] ELSE cur
       \/ /\ mount' = [mount EXCEPT !.detaches = @ + 1]
          /\ cur' = [cur EXCEPT !.err = "UnmountFailed"]
          /\ UNCHANGED copy
    /\ UNCHANGED <<fetcherVars, rootExists, root, last, pureVars>>

\* a running copyDir goes on: it has copied the executable, or, its
\* destination having been removed under it, the copy of a nested directory
\* makes the destination again
copyDirProgress ==
    /\ \E dest \in copy :
         \/ /\ exists(root, dest)
            /\ root[dest].kind = "dir"
            /\ root[dest].exe = "absent"
            /\ \E exe \in ExeStates \ {"absent"} :
                 root' = [root EXCEPT ![dest].exe = exe]
         \/ /\ ~exists(root, dest)
            /\ root' = DenoMkdir(root, dest)
    /\ UNCHANGED <<fetcherVars, rootExists, pc, cur, mount, copy, last, pureVars>>

\* a running copyDir settles: fulfilled with the whole bundle copied, or
\* rejected (nobody holds the promise)
copyDirSettle ==
    /\ \E dest \in copy :
         /\ copy' = copy \ {dest}
         /\ \/ /\ exists(root, dest)
               /\ root[dest].kind = "dir"
               /\ \E exe \in ExeStates :
                    /\ root[dest].exe # "absent" => exe = root[dest].exe
                    /\ root' = Put(root, dest, Dir(TRUE, exe))
               /\ UNCHANGED cur
            \/ /\ UNCHANGED root
               /\ cur' = IF pc # "idle" /\ dest = getFolderPath(platform, cur.revision)
                         THEN [cur EXCEPT !.caught = "CopyFailed"] ELSE cur
    /\ UNCHANGED <<fetcherVars, rootExists, pc, mount, last, pureVars>>

\* installDMG is left, by return or by exception
installDMGExit ==
    /\ pc = "installed"
    /\ pc' = "finally"
    /\ mount' = NoMount
    /\ UNCHANGED <<fetcherVars, rootExists, root, cur, copy, last, pureVars>>

-----------------------------------------------------------------------------
(* BrowserFetcher.download: cleanup and post-install *)

\* the finally block of download; an exception raised in the try block goes
\* on to the caller
downloadFinally ==
    /\ pc = "finally"
    /\ root' = IF exists(root, cur.fileName) THEN DenoRemove(root, cur.fileName) ELSE root
    /\ IF cur.err # "none"
       THEN Finish(Outcome("download", cur.revision, cur.err, NoInfo, cur.heads, cur.gets,
                           cur.prior))
       ELSE pc' = "chmod" /\ UNCHANGED <<cur, last>>
    /\ UNCHANGED <<fetcherVars, rootExists, mount, copy, pureVars>>

\* revisionInfo, Deno.chmod(executablePath, 0o755) off Windows, and the return
downloadChmod ==
    LET outputPath == getFolderPath(platform, cur.revision)
        info == revisionInfo(root, cur.revision)
    IN
    /\ pc = "chmod"
    /\ IF buildOs = "windows"
       THEN /\ Finish(Outcome("download", cur.revision, "ok", info, cur.heads, cur.gets,
                              cur.prior))
            /\ UNCHANGED root
       ELSE IF /\ exists(root, outputPath)
               /\ root[outputPath].kind = "dir"
               /\ root[outputPath].exe # "absent"
       THEN /\ root' = [root EXCEPT ![outputPath].exe = "0755"]
            /\ IF buildOs = "darwin" /\ product = "chrome"
               THEN pc' = "helpers" /\ UNCHANGED <<cur, last>>
               ELSE Finish(Outcome("download", cur.revision, "ok", info, cur.heads,
                                   cur.gets, cur.prior))
       ELSE /\ Finish(Outcome("download", cur.revision, "ChmodFailed", NoInfo,
                              cur.heads, cur.gets, cur.prior))
            /\ UNCHANGED root
    /\ UNCHANGED <<fetcherVars, rootExists, mount, copy, pureVars>>

\* the helper fixup whose failure is raised to download
helpersStatusFatal(failed) == IF failed THEN "HelperFixupFailed" ELSE "ok"

\* how download goes on after the helper fixup: its catch block logs a failed
\* read of Versions/Current or a failed chmod and returns
helpersStatus(failed) == "ok"

\* macOSMakeChromiumHelpersExecutable(revisionInfo.executablePath) and the
\* return of download
macOSMakeChromiumHelpersExecutable ==
    /\ pc = "helpers"
    /\ \E failed \in BOOLEAN :
         LET status == helpersStatus(failed) IN
         Finish([Outcome("download", cur.revision, status,
                         IF status = "ok" THEN revisionInfo(root, cur.revision)
                         ELSE NoInfo,
                         cur.heads, cur.gets, cur.prior)
                 EXCEPT !.caught = IF failed THEN "HelperFixupFailed" ELSE "none"])
    /\ UNCHANGED <<fetcherVars, rootExists, root, mount, copy, pureVars>>

download ==
    \/ \E revision \in Revisions : downloadStart(revision)
    \/ downloadHead
    \/ downloadCheck
    \/ downloadFileGet
    \/ downloadFileChunk
    \/ detectAndRenameArchive
    \/ install
    \/ extract
    \/ installDMGAttach
    \/ installDMGScan
    \/ installDMGDetach
    \/ installDMGExit
    \/ downloadFinally
    \/ downloadChmod
    \/ macOSMakeChromiumHelpersExecutable

-----------------------------------------------------------------------------
(* The Fetcher in use *)

Next ==
    \/ download
    \/ \E revision \in Revisions : remove(revision)
    \/ \E revision \in Revisions : canDownload(revision)
    \/ copyDirProgress
    \/ copyDirSettle

Spec == Init /\ [][Next]_vars

-----------------------------------------------------------------------------
(* The Fetcher in use on a disk that other programs change between its calls *)

\* BrowserFetcher.revisionInfo(revision), called by the user
revisionInfoCall(revision) ==
    /\ pc = "idle"
    /\ Finish(Outcome("revisionInfo", revision, "ok", revisionInfo(root, revision),
                      0, 0, NoInfo))
    /\ UNCHANGED <<fetcherVars, rootExists, root, mount, copy, pureVars>>

\* another program creates the folder of a revision
externalMkdir(revision) ==
    /\ pc = "idle"
    /\ ~exists(root, getFolderPath(platform, revision))
    /\ rootExists' = TRUE
    /\ root' = DenoMkdir(root, getFolderPath(platform, revision))
    /\ UNCHANGED <<fetcherVars, pc, cur, mount, copy, last, pureVars>>

\* another program deletes the folder of a revision
externalRemove(revision) ==
    /\ pc = "idle"
    /\ exists(root, getFolderPath(platform, revision))
    /\ root' = DenoRemove(root, getFolderPath(platform, revision))
    /\ UNCHANGED <<fetcherVars, rootExists, pc, cur, mount, copy, last, pureVars>>

NextDisk ==
    \/ download
    \/ \E revision \in Revisions : remove(revision)
    \/ \E revision \in Revisions : revisionInfoCall(revision)
    \/ \E revision \in Revisions : externalMkdir(revision)
    \/ \E revision \in Revisions : externalRemove(revision)
    \/ copyDirProgress
    \/ copyDirSettle

\* the Fetcher on a macOS host, where every step of download can run
\* (hdiutil is found there only)
InitDisk == Init /\ buildOs = "darwin"

SpecDisk == InitDisk /\ [][NextDisk]_vars

-----------------------------------------------------------------------------
(* The Fetcher in use when every request and every subprocess completes *)

\* a download in flight takes its next step: the fetch it awaits answers, the
\* body's next chunk or its end arrives, the subprocess it awaits exits
downloadInFlight == pc # "idle" /\ download

\* the awaited steps of a download complete, and so does a running copyDir
SpecLive ==
    /\ Init /\ [][Next]_vars
    /\ WF_vars(downloadInFlight)
    /\ WF_vars(copyDirSettle)


-----------------------------------------------------------------------------
(* new BrowserFetcher(options), and the Fetcher it makes in use *)

\* options.product; "" for none
ProductOptions == {"", "chrome", "Chrome", "firefox", "FIREFOX", "safari"}

\* String.prototype.toLowerCase on the product names
toLowerCase(str) ==
    CASE str = "Chrome" -> "chrome"
      [] str = "FIREFOX" -> "firefox"
      [] OTHER -> str

\* options.platform, which a caller in JavaScript can set to any string;
\* "" for none
PlatformOptions == {<<>>} \cup Platforms \cup { <<"freebsd">>, <<"constructor">> }

\* options.host; "" for none
HostOptions == { <<>>, <<"https:", "/", "/", "mirror.example">> }

\* a value of Deno.build.os that setPlatform has no branch for
OtherOs == {"freebsd"}

\* setPlatform: the platform given, else the one of Deno.build.os and
\* Deno.build.arch; "" when _platform stays undefined and the assert fails
setPlatform(platformFromOptions, os, arch) ==
    IF platformFromOptions # <<>> THEN platformFromOptions
    ELSE CASE os = "darwin" -> <<"mac">>
           [] os = "linux" -> <<"linux">>
           [] os = "windows" -> IF arch = "x86_64" THEN <<"win64">> ELSE <<"win32">>
           [] OTHER -> <<>>

\* a host on which nobody has constructed the Fetcher yet
InitNew ==
    /\ product = "none"
    /\ platform = <<>>
    /\ downloadHost = <<>>
    /\ buildOs \in BuildOs \cup OtherOs
    /\ rootExists = FALSE
    /\ root = EmptyFs
    /\ pc = "new"
    /\ cur = NoCur
    /\ mount = NoMount
    /\ copy = {}
    /\ last = NoOutcome
    /\ pureIn \in [product : ProductOptions, platform : PlatformOptions,
                    host : HostOptions, arch : BuildArch]
    /\ pureOut = NULL

\* the constructor: the two asserts, and the fields of the Fetcher
constructor ==
    LET prod == toLowerCase(IF pureIn.product # "" THEN pureIn.product ELSE "chrome")
        plat == setPlatform(pureIn.platform, buildOs, pureIn.arch)
        status == IF prod \notin Products THEN "UnsupportedProduct"
                  ELSE IF plat = <<>> \/ ~downloadURLsHas(prod, plat)
                  THEN "UnsupportedPlatform"
                  ELSE "ok"
    IN
    /\ pc = "new"
    /\ pureOut' = [status |-> status]
    /\ IF status = "ok"
       THEN /\ product' = prod
            /\ platform' = plat
            /\ downloadHost' = IF pureIn.host # <<>> THEN pureIn.host
                               ELSE browserConfig(prod)
            /\ pc' = "idle"
       ELSE /\ pc' = "failed"
            /\ UNCHANGED <<product, platform, downloadHost>>
    /\ UNCHANGED <<buildOs, rootExists, root, cur, mount, copy, last, pureIn>>

\* the operations are those of a Fetcher whose platform has a URL template;
\* for any other platform downloadURLs holds no template to format
NextNew ==
    \/ constructor
    \/ \E revision \in Revisions : platform \in Platforms /\ canDownload(revision)
    \/ \E revision \in Revisions : platform \in Platforms /\ revisionInfoCall(revision)
    \/ \E revision \in Revisions : platform \in Platforms /\ remove(revision)

SpecNew == InitNew /\ [][NextNew]_vars

-----------------------------------------------------------------------------
(* The sniffer's decision, applied to buffers and outputs of the file command *)

\* the bytes that stand at the start of the four magic numbers, and zero
MagicBytes == {0, 31, 139, 66, 90, 80, 75, 253, 55}

\* what follows the first two bytes: the rest of the xz magic number, the
\* same with another last byte, or the zeros of a short file
BufferTails == { <<122, 88, 90, 0>>, <<122, 88, 90, 1>>, <<0, 0, 0, 0>> }

\* the first six bytes of the buffer detectAndRenameArchive reads
Buffers == { <<first, second>> \o tail :
               first \in MagicBytes, second \in MagicBytes, tail \in BufferTails }

\* the outputs of the file command, with words that differ from the ones
\* looked for only in case
PureFileOutputs == (SUBSET {"gzip", "bzip2", "Zip", "zip", "GZIP"}) \cup {{"failed"}}

InitSniff ==
    /\ product = "firefox"
    /\ platform \in { <<"linux">>, LinuxArm64 }
    /\ downloadHost = browserConfig(product)
    /\ buildOs = "linux"
    /\ rootExists = FALSE
    /\ root = EmptyFs
    /\ pc = "pure"
    /\ cur = NoCur
    /\ mount = NoMount
    /\ copy = {}
    /\ last = NoOutcome
    /\ pureIn \in [buffer : Buffers, fileOutput : PureFileOutputs]
    /\ pureOut = NULL

\* the decision of detectAndRenameArchive on the buffer and the output
classifyOfBuffer ==
    /\ pc = "pure"
    /\ pc' = "classify"
    /\ LET header == MagicOf(pureIn.buffer) IN
       pureOut' = [header |-> header,
                   consulted |-> FileCommandRuns(header),
                   format |-> classify(header, pureIn.fileOutput)]
    /\ UNCHANGED <<fetcherVars, rootExists, root, cur, mount, copy, last, pureIn>>

NextSniff == classifyOfBuffer

SpecSniff == InitSniff /\ [][NextSniff]_vars

-----------------------------------------------------------------------------
(* parseName, applied to the names a download root can hold *)

\* how the names begin: with a platform, with the name of a member of
\* Object.prototype, with another word, with nothing
NamePrefixes ==
    { <<>>, <<"linux">>, <<"linux", "-">>, <<"linux", "-", "arm64", "-">>,
      <<"win64", "-">>, <<"freebsd", "-">>, <<"constructor", "-">> }

InitName ==
    /\ product \in Products
    /\ platform \in Platforms
    /\ downloadHost = browserConfig(product)
    /\ buildOs = "linux"
    /\ rootExists = FALSE
    /\ root = EmptyFs
    /\ pc = "pure"
    /\ cur = NoCur
    /\ mount = NoMount
    /\ copy = {}
    /\ last = NoOutcome
    /\ pureIn \in { [name |-> prefix \o rest] :
                       prefix \in NamePrefixes, rest \in PureRevisions }
    /\ pureOut = NULL

\* parseName(product, name)
parseNameOfName ==
    /\ pc = "pure"
    /\ pc' = "parseName"
    /\ pureOut' = parseName(product, pureIn.name)
    /\ UNCHANGED <<fetcherVars, rootExists, root, cur, mount, copy, last, pureIn>>

NextName == parseNameOfName

SpecName == InitName /\ [][NextName]_vars

-----------------------------------------------------------------------------
(* readLines, applied to byte streams cut into chunks *)

\* the chunks of a stream and the bytes of a chunk
MaxReads == 3
MaxChunkLen == 2

\* the bytes of a stream: line feed, the letter a, and the two bytes of the
\* UTF-8 encoding of U+00E9
LineBytes == {10, 97, 195, 169}

NewLine == "\n"

\* the byte chunks a ReadableStream<Uint8Array> delivers
ByteChunks == StringsUpTo(LineBytes, MaxChunkLen)

\* TextDecoderStream on one chunk: the text decoded so far and the lead byte
\* of a character cut by the end of the chunk, kept for the next chunk; a
\* lead byte not followed by its continuation byte, and a continuation byte
\* on its own, decode to U+FFFD
RECURSIVE decode(_, _, _)
decode(pending, bytes, text) ==
    IF bytes = <<>> THEN [text |-> text, pending |-> pending]
    ELSE LET b == Head(bytes) IN
         IF pending # <<>>
         THEN IF b = 169
              THEN decode(<<>>, Tail(bytes), Append(text, "U+00E9"))
              ELSE decode(<<>>, bytes, Append(text, "U+FFFD"))
         ELSE CASE b = 195 -> decode(<<195>>, Tail(bytes), text)
                [] b = 169 -> decode(<<>>, Tail(bytes), Append(text, "U+FFFD"))
                [] b = 10 -> decode(<<>>, Tail(bytes), Append(text, NewLine))
                [] OTHER -> decode(<<>>, Tail(bytes), Append(text, "a"))

\* TextDecoderStream at the end of its input: a character left incomplete
decodeFlush(pending) == IF pending # <<>> THEN <<"U+FFFD">> ELSE <<>>

\* the body of the loop for one value read: buffer += value, the split at
\* '\n', the yield of every segment but the last, which stays in the buffer
yieldLines(state, value) ==
    LET lines == Split(state.buffer \o value, NewLine) IN
    [state EXCEPT !.yielded = @ \o SubSeq(lines, 1, Len(lines) - 1),
                  !.buffer = LastOf(lines)]

\* the end of the stream with the buffer yielded whatever it holds
finalLinesAlways(buffer) == <<buffer>>

\* if (buffer.length > 0) yield buffer
finalLines(buffer) == IF Len(buffer) > 0 THEN <<buffer>> ELSE <<>>

InitLines ==
    /\ product \in Products
    /\ platform = <<"linux">>
    /\ downloadHost = browserConfig(product)
    /\ buildOs = "linux"
    /\ rootExists = FALSE
    /\ root = EmptyFs
    /\ pc = "readLines"
    /\ cur = NoCur
    /\ mount = NoMount
    /\ copy = {}
    /\ last = NoOutcome
    /\ pureIn \in { [chunks |-> chunks] : chunks \in StringsUpTo(ByteChunks, MaxReads) }
    /\ pureOut = [reads |-> 0, pending |-> <<>>, flushed |-> FALSE,
                  buffer |-> <<>>, yielded |-> <<>>]

\* streamReader.read() gives a value: the text of the next chunk, or, after
\* the last chunk, what the decoder flushes
readLinesValue ==
    /\ pc = "readLines"
    /\ IF pureOut.reads < Len(pureIn.chunks)
       THEN LET decoded == decode(pureOut.pending, pureIn.chunks[pureOut.reads + 1], <<>>)
            IN  pureOut' = [yieldLines(pureOut, decoded.text) EXCEPT
                              !.reads = @ + 1, !.pending = decoded.pending]
       ELSE /\ ~pureOut.flushed
            /\ pureOut.pending # <<>>
            /\ pureOut' = [yieldLines(pureOut, decodeFlush(pureOut.pending)) EXCEPT
                             !.pending = <<>>, !.flushed = TRUE]
    /\ UNCHANGED <<fetcherVars, rootExists, root, pc, cur, mount, copy, last, pureIn>>

\* streamReader.read() gives done: the rest of the buffer is yielded
readLinesDone ==
    /\ pc = "readLines"
    /\ pureOut.reads = Len(pureIn.chunks)
    /\ pureOut.pending = <<>>
    /\ pc' = "readLinesDone"
    /\ pureOut' = [pureOut EXCEPT !.yielded = @ \o finalLines(pureOut.buffer),
                                  !.buffer = <<>>]
    /\ UNCHANGED <<fetcherVars, rootExists, root, cur, mount, copy, last, pureIn>>

NextLines == readLinesValue \/ readLinesDone

SpecLines == InitLines /\ [][NextLines]_vars

-----------------------------------------------------------------------------
(* The pure functions, applied to inputs drawn from bounded sets *)

\* values of options.host: the hosts of browserConfig, either of which a
\* caller can also pass for the other product
Hosts == { browserConfig(prod) : prod \in Products }

\* revisions of a second call
OtherRevisions == StringsUpTo(RevChars, 1)

\* names found in a download root that Fetchers of several platforms and
\* products share: installed folders, an archive, a stray folder
PureNames ==
    { <<"linux", "-", "591479">>, <<"linux", "-", "arm64", "-", "591480">>,
      <<"win64", "-", "591479">>, <<"chrome", "-", "linux", ".zip">>,
      <<"constructor", "-", "591479">> }

\* what Deno.readDir can list: no download root, or one with some of the names
Listings ==
    { [exists |-> FALSE, names |-> {}] }
        \cup { [exists |-> TRUE, names |-> names] : names \in SUBSET PureNames }

\* the disk state of a listing
FsOf(names) == [n \in names |-> Dir(TRUE, "absent")]

\* revision and host: the arguments of the call under check; other and
\* otherHost: those of a second call, for the claims that compare two calls;
\* listing: the download root
InitPure ==
    /\ product \in Products
    /\ platform \in Platforms
    /\ buildOs = "linux"
    /\ rootExists = FALSE
    /\ root = EmptyFs
    /\ pc = "pure"
    /\ cur = NoCur
    /\ mount = NoMount
    /\ copy = {}
    /\ last = NoOutcome
    /\ pureIn \in [revision : PureRevisions, other : OtherRevisions,
                    host : Hosts, otherHost : Hosts, listing : Listings]
    /\ downloadHost = pureIn.host
    /\ pureOut = NULL

\* parseName on the basename of _getFolderPath(revision)
parseNameOfFolderPath ==
    /\ pc = "pure"
    /\ pc' = "parseName"
    /\ pureOut' = parseName(product, getFolderPath(platform, pureIn.revision))
    /\ UNCHANGED <<fetcherVars, rootExists, root, cur, mount, copy, last, pureIn>>

\* downloadURL for the Fetcher's product and platform, called twice: with
\* (host, revision) and with (otherHost, other)
downloadURLTwice ==
    /\ pc = "pure"
    /\ pc' = "downloadURL"
    /\ pureOut' = [url |-> downloadURL(product, platform, pureIn.host, pureIn.revision),
                   otherUrl |-> downloadURL(product, platform, pureIn.otherHost,
                                            pureIn.other)]
    /\ UNCHANGED <<fetcherVars, rootExists, root, cur, mount, copy, last, pureIn>>

\* revisionInfo(revision) of the Fetcher
revisionInfoOfRevision ==
    /\ pc = "pure"
    /\ pc' = "revisionInfo"
    /\ LET status == revisionInfoStatus(product, platform) IN
       pureOut' = [status |-> status,
                   info |-> IF status = "ok"
                            THEN revisionInfo(FsOf(pureIn.listing.names), pureIn.revision)
                            ELSE NoInfo]
    /\ UNCHANGED <<fetcherVars, rootExists, root, cur, mount, copy, last, pureIn>>

\* archiveName for the Fetcher's product and platform
archiveNameOfRevision ==
    /\ pc = "pure"
    /\ pc' = "archiveName"
    /\ pureOut' = archiveName(product, platform, pureIn.revision)
    /\ UNCHANGED <<fetcherVars, rootExists, root, cur, mount, copy, last, pureIn>>

\* localRevisions() on the listed download root
localRevisionsOfListing ==
    /\ pc = "pure"
    /\ pc' = "localRevisions"
    /\ pureOut' = localRevisions(pureIn.listing.exists, FsOf(pureIn.listing.names))
    /\ UNCHANGED <<fetcherVars, rootExists, root, cur, mount, copy, last, pureIn>>

NextPure ==
    \/ parseNameOfFolderPath
    \/ downloadURLTwice
    \/ revisionInfoOfRevision
    \/ archiveNameOfRevision
    \/ localRevisionsOfListing

SpecPure == InitPure /\ [][NextPure]_vars


-----------------------------------------------------------------------------
(* Properties *)

FolderOf(revision) == getFolderPath(platform, revision)

\* the installation of a folder completed: the extraction ran to its end and,
\* off Windows, the executable was made executable
Installed(entry) ==
    /\ entry.kind = "dir"
    /\ entry.extracted
    /\ buildOs # "windows" => entry.exe = "0755"

\* C1: between operations, every folder {platform}-{revision} that exists in
\* the download root is a completed installation.
InstalledFolderIsComplete ==
    pc = "idle" =>
        \A r \in Revisions : exists(root, FolderOf(r)) => Installed(root[FolderOf(r)])

\* C2: when a download that issued its GET finishes, by return or by error, the
\* archive exists neither under the name it was stored under nor under the
\* name the sniffer gave it.
ArchiveRemovedAfterDownload ==
    [][(pc # "idle" /\ pc' = "idle" /\ cur.gets = 1) =>
           /\ ~exists(root', cur.fileName)
           /\ ~exists(root', cur.actualPath)]_vars

\* C3: a download that directly follows a successful download of the same
\* revision issues no request and returns the same RevisionInfo.
DownloadIdempotent ==
    (pc = "idle" /\ last.op = "download" /\ last.prior # NoInfo) =>
        /\ last.status = "ok"
        /\ last.heads = 0
        /\ last.gets = 0
        /\ last.info = last.prior

\* C4: when download has returned a RevisionInfo, the revision is local, the
\* file at executablePath exists and, off Windows, its mode is 0755.
DownloadedExecutableUsable ==
    (pc = "idle" /\ last.op = "download" /\ last.status = "ok") =>
        /\ revisionInfo(root, last.revision).local
        /\ root[FolderOf(last.revision)].kind = "dir"
        /\ root[FolderOf(last.revision)].exe # "absent"
        /\ buildOs # "windows" => root[FolderOf(last.revision)].exe = "0755"

\* C5: whenever the sniffer decided on a format, the path handed to install
\* ends in the extension of that format.
SniffedFormatNamesArchive ==
    (pc = "install" /\ cur.format \in {"xz", "gzip", "bzip2", "zip"}) =>
        EndsWith(cur.actualPath, ExtensionOf(cur.format))

\* C6: parseName of the basename of _getFolderPath(revision) is the Fetcher's
\* platform and that revision, for every platform and revision string.
ParseNameRoundTrip ==
    pc = "parseName" =>
        /\ pureOut # NULL
        /\ pureOut.platform = platform
        /\ pureOut.revision = pureIn.revision

\* C7: remove of a revision whose folder does not exist fails as not installed
\* and leaves the download root as it was.
RemoveNotInstalledFails ==
    [][\A r \in Revisions :
          (remove(r) /\ ~exists(root, FolderOf(r))) =>
              /\ last'.op = "remove"
              /\ last'.status = "NotInstalled"
              /\ root' = root
              /\ rootExists' = rootExists]_vars

RemoveNotInstalledSeen ==
    /\ pc = "idle"
    /\ last.op = "remove"
    /\ last.status = "NotInstalled"
    /\ ~exists(root, FolderOf(last.revision))
    /\ root # EmptyFs

\* the revision is in neither view of what is installed
Gone(revisions, fs, r) ==
    /\ r \notin revisions
    /\ ~revisionInfo(fs, r).local

DetachAfterCopy ==
    [][(pc = "detach" /\ pc' = "installed") => FolderOf(cur.revision) \notin copy]_vars

\* C10: when installDMG is left, by return or by exception, an image that was
\* attached has been detached exactly once.
MountReleasedOnce ==
    (pc = "installed" /\ mount.attached) => mount.detaches = 1

\* C11: a failure of the format detection or of the disk-image copy is raised
\* to download at once (nothing catches it and goes on), and a download in
\* which one happened does not return a RevisionInfo.
FailureAbortsDownload ==
    [][/\ cur'.caught # "none" => cur'.err # "none"
       /\ (cur.caught # "none" /\ pc' = "idle") => last'.status # "ok"]_vars

\* C12: for chrome on linux-arm64 a download never gets past the architecture
\* check: it issues no GET, creates no revision folder and ends with the
\* unsupported-architecture error.
UnsupportedPairingRejected ==
    (product = "chrome" /\ platform = LinuxArm64) =>
        /\ pc \in {"idle", "check"}
        /\ cur.gets = 0
        /\ \A r \in Revisions : ~exists(root, FolderOf(r))
        /\ last.op = "download" =>
               (last.status = "UnsupportedArchitecture" /\ last.gets = 0)

ProgressTotalIsContentLength ==
    (pc = "stream" /\ cur.calls > 0) =>
        cur.progress.total = IF cur.contentLength = <<>> THEN 0
                             ELSE parseInt(cur.contentLength)

\* the sum of the chunk sizes of a body
RECURSIVE SumOf(_)
SumOf(sizes) == IF sizes = <<>> THEN 0 ELSE sizes[1] + SumOf(Tail(sizes))

\* C15: progressCallback is called once per chunk received, with the sum of the
\* sizes of the chunks received so far; the values never decrease, and when
\* the body has ended the last one is the size of the whole body.
ProgressIsRunningSum ==
    [][pc = "stream" =>
          /\ pc' = "stream" =>
                 /\ cur'.calls = Len(cur'.body)
                 /\ cur'.progress.bytes = SumOf(cur'.body)
                 /\ cur'.progress.bytes >= cur.progress.bytes
          /\ pc' \in {"sniff", "install"} =>
                 /\ cur.calls = Len(cur.body)
                 /\ cur.progress.bytes = SumOf(cur.body)]_vars

ProgressSeenTwice ==
    /\ pc = "stream"
    /\ cur.calls = 2
    /\ cur.body = <<1, 2>>
    /\ cur.progress.bytes = 3

\* C16: canDownload issues one HEAD request, to downloadURL of the revision,
\* and no GET; it returns true exactly when the status of the response is
\* 200; it leaves the download root as it was.
CanDownloadIffStatus200 ==
    [][(last'.op = "canDownload" /\ last' # last) =>
          /\ last'.heads = 1
          /\ last'.gets = 0
          /\ root' = root
          /\ rootExists' = rootExists
          /\ last'.status = "ok" =>
                 /\ last'.url = downloadURL(product, platform, downloadHost,
                                            last'.revision)
                 /\ last'.result = (last'.httpStatus = 200)]_vars

CanDownloadRefused ==
    /\ pc = "idle"
    /\ last.op = "canDownload"
    /\ last.status = "ok"
    /\ last.httpStatus = 404
    /\ ~last.result
    /\ root # EmptyFs

\* s begins with prefix; s has sub as a substring
StartsWith(s, prefix) ==
    Len(prefix) <= Len(s) /\ SubSeq(s, 1, Len(prefix)) = prefix

Contains(s, sub) ==
    \E i \in 1..(Len(s) + 1) :
        i + Len(sub) - 1 <= Len(s) /\ SubSeq(s, i, i + Len(sub) - 1) = sub

\* C17: for firefox on linux and linux-arm64 two calls of downloadURL that
\* differ in revision and host return the same URL; for every other pair the
\* URL begins with the host and contains the revision.
FirefoxLinuxURLFixed ==
    pc = "downloadURL" =>
        IF product = "firefox" /\ IsLinux(platform)
        THEN pureOut.url = pureOut.otherUrl
        ELSE /\ StartsWith(pureOut.url, pureIn.host)
             /\ Contains(pureOut.url, pureIn.revision)

\* C18: for each supported pair and every revision revisionInfo does not
\* throw, and its executablePath is a non-empty path below
\* folderPath = {platform}-{revision} of the download root; for firefox on
\* linux-arm64 it is {folderPath}/firefox/firefox.
ExecutablePathInsideFolder ==
    pc = "revisionInfo" =>
        /\ pureOut.status = "ok"
        /\ LET info == pureOut.info IN
           /\ info.folderPath = platform \o <<"-">> \o pureIn.revision
           /\ info.executablePath # <<>>
           /\ StartsWith(info.executablePath, info.folderPath \o <<"/">>)
           /\ Len(info.executablePath) > Len(info.folderPath) + 1
           /\ (product = "firefox" /\ platform = LinuxArm64) =>
                 info.executablePath = info.folderPath \o <<"/", "firefox", "/", "firefox">>

ExecutablePathOnArm64 ==
    /\ pc = "revisionInfo"
    /\ product = "firefox"
    /\ platform = LinuxArm64
    /\ pureIn.revision = <<"591480">>
    /\ pureOut.status = "ok"
    /\ pureOut.info.executablePath
         = <<"linux", "-", "arm64", "-", "591480", "/", "firefox", "/", "firefox">>

\* C19: archiveName is chrome-win for chrome on win32 and win64 when the
\* number the revision begins with is greater than 591479 and chrome-win32
\* otherwise, 591479 included; chrome-linux for chrome on linux and
\* linux-arm64, chrome-mac on mac; the platform for firefox.
ArchiveNameByPlatform ==
    pc = "archiveName" =>
        IF product = "firefox" THEN pureOut = platform
        ELSE IF platform = <<"mac">> THEN pureOut = <<"chrome", "-", "mac">>
        ELSE IF platform \in { <<"linux">>, <<"linux", "-", "arm64">> }
        THEN pureOut = <<"chrome", "-", "linux">>
        ELSE /\ pureOut = <<"chrome", "-", "win">> <=> parseInt(pureIn.revision) > 591479
             /\ pureOut = <<"chrome", "-", "win32">> <=> parseInt(pureIn.revision) <= 591479
             /\ pureIn.revision = <<"591479">> => pureOut = <<"chrome", "-", "win32">>
             /\ pureIn.revision = <<"591480">> => pureOut = <<"chrome", "-", "win">>

ArchiveNameAtBoundary ==
    /\ pc = "archiveName"
    /\ product = "chrome"
    /\ platform = <<"win64">>
    /\ pureIn.revision = <<"591479">>
    /\ pureOut = <<"chrome", "-", "win32">>

\* C20: localRevisions returns the revision of every entry of the download
\* root whose name parses to the Fetcher's platform and nothing else: no
\* revision of an entry of another platform or of an unparseable name, and
\* nothing when the download root does not exist.
ParsesToPlatform(name) ==
    /\ parseName(product, name) # NULL
    /\ parseName(product, name).platform = platform

LocalRevisionsOfPlatformOnly ==
    pc = "localRevisions" =>
        /\ ~pureIn.listing.exists => pureOut = {}
        /\ \A name \in pureIn.listing.names :
              ParsesToPlatform(name) => parseName(product, name).revision \in pureOut
        /\ \A revision \in pureOut :
              \E name \in pureIn.listing.names :
                  /\ ParsesToPlatform(name)
                  /\ parseName(product, name).revision = revision
        /\ <<"linux", ".zip">> \notin pureOut
        /\ platform # LinuxArm64 => <<"591480">> \notin pureOut
        /\ platform \notin { <<"linux">>, <<"win64">> } => <<"591479">> \notin pureOut

LocalRevisionsSkipsOthers ==
    /\ pc = "localRevisions"
    /\ platform = <<"linux">>
    /\ pureIn.listing.names = PureNames
    /\ pureOut = { <<"591479">> }

\* C21: every call revisionInfo(r), wherever it stands in a sequence of
\* downloads, removes and creations and deletions of the folder by others,
\* returns local equal to whether the folder {platform}-{r} exists at that
\* moment, and leaves the disk as it is.
LocalNeverCached ==
    [][(pc = "idle" /\ last' # last /\ last'.op = "revisionInfo") =>
          /\ last'.info.local = (FolderOf(last'.revision) \in DOMAIN root)
          /\ root' = root
          /\ rootExists' = rootExists]_vars

\* revisionInfo(r) has answered local for a folder that holds nothing
LocalSeenForBareFolder ==
    /\ last.op = "revisionInfo"
    /\ last.info.local
    /\ FolderOf(last.revision) \in DOMAIN root
    /\ root[FolderOf(last.revision)] = Dir(FALSE, "absent")

\* C22: when the folder {platform}-{r} exists at download's existence check,
\* whatever it holds, download returns revisionInfo(r) with local true at
\* once: no GET, and the download root, the mounts and the copies are as
\* they were.
ExistingFolderShortCircuits ==
    [][(pc = "check" /\ pc' # "check" /\ FolderOf(cur.revision) \in DOMAIN root) =>
          /\ pc' = "idle"
          /\ last'.op = "download"
          /\ last'.status = "ok"
          /\ last'.gets = 0
          /\ last'.info.local
          /\ last'.info.revision = cur.revision
          /\ last'.info.folderPath = FolderOf(cur.revision)
          /\ root' = root
          /\ rootExists' = rootExists
          /\ mount' = mount
          /\ copy' = copy]_vars

\* download has returned at once for a folder that holds nothing
ShortCircuitOnBareFolder ==
    /\ last.op = "download"
    /\ last.status = "ok"
    /\ last.gets = 0
    /\ FolderOf(last.revision) \in DOMAIN root
    /\ root[FolderOf(last.revision)] = Dir(FALSE, "absent")

\* C23: without a platform option the platform is inferred from the OS and
\* the architecture: linux on x86_64 gives linux, linux on arm64 gives
\* linux-arm64, macOS gives mac, windows on x86_64 gives win64, other
\* windows gives win32; a platform option overrides the inference.
PlatformInferredFromOsAndArch ==
    (pc = "idle" /\ buildOs \in BuildOs) =>
        IF pureIn.platform # <<>> THEN platform = pureIn.platform
        ELSE platform =
               CASE buildOs = "darwin" -> <<"mac">>
                 [] buildOs = "linux" ->
                      IF pureIn.arch = "x86_64" THEN <<"linux">>
                      ELSE <<"linux", "-", "arm64">>
                 [] buildOs = "windows" ->
                      IF pureIn.arch = "x86_64" THEN <<"win64">> ELSE <<"win32">>

\* C24: a constructed Fetcher has a product in {chrome, firefox} (the
\* option lower-cased, chrome by default) and a platform among the five;
\* construction with another product, or with a platform that is unknown or
\* cannot be inferred, fails; product, platform and host stay what the
\* constructor made them.
ConstructedFetcherSupported ==
    LET prod == toLowerCase(IF pureIn.product # "" THEN pureIn.product ELSE "chrome")
        plat == setPlatform(pureIn.platform, buildOs, pureIn.arch)
    IN
    /\ pc = "idle" =>
          /\ product \in Products
          /\ product = prod
          /\ platform \in Platforms
          /\ platform = plat
          /\ downloadHost = IF pureIn.host # <<>> THEN pureIn.host
                            ELSE browserConfig(product)
    /\ (pc # "new" /\ (prod \notin Products \/ plat \notin Platforms)) => pc = "failed"

\* C25: install on an archive path that ends in none of .zip, .tar.bz2,
\* .tar.gz, .tar.xz, .dmg raises UnsupportedArchiveFormat and creates no
\* destination folder, and the download it runs in raises that error to its
\* caller.
UnsupportedExtensionFails ==
    /\ [][(pc = "install" /\ pc' # "install"
            /\ InstallerOf(cur.actualPath) = "unsupported") =>
             /\ pc' = "finally"
             /\ cur'.err = "UnsupportedArchiveFormat"
             /\ root' = root]_vars
    /\ [][(pc = "finally" /\ pc' # "finally"
            /\ cur.err = "UnsupportedArchiveFormat") =>
             /\ pc' = "idle"
             /\ last'.op = "download"
             /\ last'.status = "UnsupportedArchiveFormat"
             /\ FolderOf(cur.revision) \notin DOMAIN root']_vars

\* a download that fetched its archive has raised UnsupportedArchiveFormat
\* and left no folder
UnsupportedExtensionSeen ==
    /\ last.op = "download"
    /\ last.status = "UnsupportedArchiveFormat"
    /\ last.gets = 1
    /\ FolderOf(last.revision) \notin DOMAIN root

\* C26: revisionInfo(r) returns a record of exactly the fields revision,
\* product, platform, folderPath, executablePath, url and local, with
\* revision = r, the Fetcher's product and platform,
\* folderPath = {platform}-{r} of the download root and
\* url = downloadURL(product, platform, host, r).
RevisionInfoFields ==
    pc = "revisionInfo" =>
        LET info == pureOut.info IN
        /\ DOMAIN info = {"revision", "product", "platform", "folderPath",
                          "executablePath", "url", "local"}
        /\ info.revision = pureIn.revision
        /\ info.product = product
        /\ info.platform = platform
        /\ info.folderPath = platform \o <<"-">> \o pureIn.revision
        /\ info.url = downloadURL(product, platform, pureIn.host, pureIn.revision)

\* the positions of download inside install and the handlers it dispatches to
InstallSteps == {"install", "extract", "attach", "scan", "detach", "installed"}

\* C27: in every download that performs a GET, whatever the product and the
\* platform, the body is written to the archive first, then the sniffer
\* with its rename runs, then the extraction: install and the extractors
\* never run before the sniffer has decided, and the sniffer never runs
\* before downloadFile has returned.
SniffBetweenWriteAndExtract ==
    /\ pc \in InstallSteps => (cur.gets = 1 /\ cur.format # "none")
    /\ pc = "sniff" => (cur.gets = 1 /\ cur.actualPath = cur.fileName
                         /\ cur.body = <<>> /\ cur.format = "none")

\* the buffer starts with the bytes of prefix
HasPrefix(buffer, prefix) == SubSeq(buffer, 1, Len(prefix)) = prefix

\* C28: the leading bytes are checked in the order XZ (fd 37 7a 58 5a 00),
\* gzip (1f 8b), bzip2 (42 5a), ZIP (50 4b); the first match decides, the
\* four magic numbers give the four formats xz, gzip, bzip2 and zip, and the
\* file command is consulted only when none of them matches.
MagicDecidesFirst ==
    pc = "classify" =>
        LET buffer == pureIn.buffer IN
        IF HasPrefix(buffer, <<253, 55, 122, 88, 90, 0>>)
        THEN pureOut.format = "xz" /\ ~pureOut.consulted
        ELSE IF HasPrefix(buffer, <<31, 139>>)
        THEN pureOut.format = "gzip" /\ ~pureOut.consulted
        ELSE IF HasPrefix(buffer, <<66, 90>>)
        THEN pureOut.format = "bzip2" /\ ~pureOut.consulted
        ELSE IF HasPrefix(buffer, <<80, 75>>)
        THEN pureOut.format = "zip" /\ ~pureOut.consulted
        ELSE /\ pureOut.consulted
             /\ pureOut.format \in {"gzip", "bzip2", "zip", "unknown"}

\* a buffer that begins like the xz magic number and ends otherwise went to
\* the file command
NearXzConsultsFileCommand ==
    /\ pc = "classify"
    /\ pureIn.buffer = <<253, 55, 122, 88, 90, 1>>
    /\ pureOut.consulted
    /\ pureOut.format = "gzip"

\* C29: when no magic number matches, the output of the file command
\* decides, first match in the order gzip, bzip2, Zip, case-sensitive:
\* gzip wins over bzip2 and Zip; an output with none of the three, or a
\* failure to run the command, gives unknown.
FileOutputDecidesInOrder ==
    (pc = "classify" /\ pureOut.header = "other") =>
        LET output == pureIn.fileOutput IN
        /\ "gzip" \in output => pureOut.format = "gzip"
        /\ ("gzip" \notin output /\ "bzip2" \in output) => pureOut.format = "bzip2"
        /\ ("gzip" \notin output /\ "bzip2" \notin output /\ "Zip" \in output) =>
              pureOut.format = "zip"
        /\ output \cap {"gzip", "bzip2", "Zip"} = {} => pureOut.format = "unknown"

\* an output that names gzip, bzip2 and Zip was taken for gzip
GzipWinsOverOthers ==
    /\ pc = "classify"
    /\ pureOut.header = "other"
    /\ pureIn.fileOutput = {"gzip", "bzip2", "Zip"}
    /\ pureOut.format = "gzip"

\* the sniffer ends without a format: it raises nothing and leaves the
\* archive under the name it was stored under
UnknownFormatKeepsName ==
    [][(pc = "sniff" /\ pc' # "sniff" /\ cur'.format = "unknown") =>
          /\ pc' = "install"
          /\ cur'.err = "none"
          /\ cur'.actualPath = cur.fileName
          /\ InstallerOf(cur'.actualPath) = InstallerOf(cur.fileName)
          /\ root' = root]_vars

\* what install and the extractors raise
InstallErrors == {"UnsupportedArchiveFormat", "MkdirFailed", "ExtractionFailed"}

\* C30: an unknown classification is no failure: the archive keeps its name,
\* extraction is attempted under the original extension, and the download
\* fails only if that extraction fails, with the extraction's error.
UnknownFormatOnlyExtractionFails ==
    /\ UnknownFormatKeepsName
    /\ [][(pc # "idle" /\ pc' = "idle" /\ cur.format = "unknown"
            /\ last'.status # "ok") =>
             /\ last'.status \in InstallErrors
             /\ last'.status = cur.err]_vars

\* C30, amended: an unknown classification is no failure: the archive keeps
\* its name and extraction is attempted under the original extension; the
\* download then fails only with the error of that extraction or, the
\* extraction done, with the failure of the chmod of the executable.
UnknownFormatFallsBack ==
    /\ UnknownFormatKeepsName
    /\ [][(pc # "idle" /\ pc' = "idle" /\ cur.format = "unknown"
            /\ last'.status # "ok") =>
             \/ last'.status \in InstallErrors /\ last'.status = cur.err
             \/ /\ last'.status = "ChmodFailed"
                /\ cur.err = "none"
                /\ pc = "chmod"]_vars

\* the extraction of an archive of unknown format, attempted under the name
\* it was stored under, has failed
UnknownFormatExtractionFailed ==
    /\ pc = "finally"
    /\ cur.format = "unknown"
    /\ cur.actualPath = cur.fileName
    /\ cur.err = "ExtractionFailed"

\* some subprocess of the extractor exited with a non-zero status
SomeExitNonZero(exits) == \E i \in DOMAIN exits : exits[i] # 0

\* C31: the extractors wait for bzcat and tar to exit and check their
\* status: a non-zero exit makes install fail with ExtractionFailed and the
\* download raise that error instead of returning a RevisionInfo; an
\* extractor returns only with every subprocess exited with status 0.
NonZeroExitFailsDownload ==
    /\ [][(pc = "extract" /\ pc' # "extract" /\ SomeExitNonZero(cur'.exits)) =>
             /\ pc' = "finally"
             /\ cur'.err = "ExtractionFailed"]_vars
    /\ [][(pc = "finally" /\ pc' # "finally" /\ SomeExitNonZero(cur.exits)) =>
             /\ pc' = "idle"
             /\ last'.op = "download"
             /\ last'.status = "ExtractionFailed"
             /\ last'.info = NoInfo]_vars
    /\ [][(pc = "extract" /\ pc' # "extract" /\ cur'.err = "none") =>
             cur'.exits = ExitsOk(InstallerOf(cur.actualPath))]_vars

\* tar exited with a non-zero status after bzcat had succeeded
TarFailedAfterBzcat ==
    /\ pc = "finally"
    /\ cur.exits = <<0, 1>>
    /\ cur.err = "ExtractionFailed"

\* C32: for chrome on a macOS host a failure of the helper fixup (the read
\* of Versions/Current or a chmod of a helper) is logged and does not fail
\* the download: download returns the RevisionInfo with local true, the
\* main executable being 0755.
HelperFixupNotFatal ==
    [][(pc = "helpers" /\ pc' # "helpers") =>
          /\ pc' = "idle"
          /\ last'.op = "download"
          /\ last'.status = "ok"
          /\ last'.info.local
          /\ last'.info.revision = cur.revision
          /\ FolderOf(cur.revision) \in DOMAIN root'
          /\ root'[FolderOf(cur.revision)].exe = "0755"]_vars

\* a download has returned after its helper fixup failed
HelperFixupFailureLogged ==
    /\ last.op = "download"
    /\ last.status = "ok"
    /\ last.caught = "HelperFixupFailed"
    /\ product = "chrome"
    /\ buildOs = "darwin"

\* C33: parseName gives platform linux-arm64 and the third segment as
\* revision for a name of three hyphen-delimited segments beginning
\* linux-arm64, platform and revision for a name of two segments whose
\* first is a known platform, and null for every other name: one of no
\* known platform or of any other number of segments.
ParseNameKnownPlatformsOnly ==
    pc = "parseName" =>
        LET segments == Split(pureIn.name, "-") IN
        IF /\ Len(segments) = 3
           /\ segments[1] = <<"linux">>
           /\ segments[2] = <<"arm64">>
        THEN pureOut = [product |-> product, platform |-> <<"linux", "-", "arm64">>,
                        revision |-> segments[3]]
        ELSE IF Len(segments) = 2 /\ segments[1] \in Platforms
        THEN pureOut = [product |-> product, platform |-> segments[1],
                        revision |-> segments[2]]
        ELSE pureOut = NULL

\* C34: with no operation in flight, for every revision r,
\* revisionInfo(r).local is true exactly when r is among localRevisions().
LocalAgreesWithLocalRevisions ==
    pc = "idle" =>
        LET listed == localRevisions(rootExists, root) IN
        \A r \in Revisions \cup listed :
            revisionInfo(root, r).local <=> r \in listed

\* C35: when download(r) raises an error, revisionInfo(r).local is false and
\* r is not in localRevisions() directly afterwards, so the next download(r)
\* does not short-circuit.
FailedDownloadLeavesNothingLocal ==
    [][(pc # "idle" /\ pc' = "idle" /\ last'.op = "download"
            /\ last'.status # "ok") =>
           /\ ~revisionInfo(root', last'.revision).local
           /\ last'.revision \notin localRevisions(rootExists', root')]_vars

\* C36: download(r) and remove(r) leave every other revision untouched: for
\* every revision r2 other than r and every platform, the folder
\* {platform}-{r2} exists after a step of the operation exactly when it
\* existed before it.
OtherRevisionsUntouched ==
    [][LET r == IF pc # "idle" THEN cur.revision
                ELSE IF pc' # "idle" THEN cur'.revision ELSE last'.revision
           downloadStep == \/ pc = "idle" /\ pc' # "idle"
                           \/ pc # "idle" /\ (pc' # pc \/ cur' # cur)
           removeStep == /\ pc = "idle" /\ pc' = "idle" /\ last'.op = "remove"
                         /\ \/ last' # last
                            \/ /\ DOMAIN root' # DOMAIN root
                               /\ DOMAIN root' \subseteq DOMAIN root
       IN  (downloadStep \/ removeStep) =>
               \A p \in Platforms : \A r2 \in PureRevisions \ {r} :
                   exists(root', getFolderPath(p, r2))
                       <=> exists(root, getFolderPath(p, r2))]_vars

\* C37: whatever file name the server sends, the archive path that download
\* creates and the one its cleanup deletes recursively is a direct child of
\* the download root, and is not the folder {platform}-{revision} itself.
ArchivePathInsideRoot ==
    [][(\/ pc = "get" /\ pc' = "stream"
        \/ pc = "finally" /\ pc' # "finally" /\ exists(root, cur.fileName)) =>
           /\ IsChildName(cur.fileName)
           /\ cur.fileName # getFolderPath(platform, cur.revision)]_vars

\* C38: when requests and subprocesses complete, every download finishes,
\* and when it does the work it started has ended: no copyDir into its folder
\* is running and an image its installDMG attached has been detached.
DownloadFinishesWithWorkEnded ==
    /\ (pc # "idle") ~> (pc = "idle")
    /\ [][(pc # "idle" /\ pc' = "idle") => FolderOf(cur.revision) \notin copy']_vars
    /\ [][(pc = "installed" /\ pc' # "installed" /\ mount.attached) =>
             mount.detaches = 1]_vars

\* the whole stream as one byte sequence
RECURSIVE Concat(_)
Concat(chunks) == IF chunks = <<>> THEN <<>> ELSE Head(chunks) \o Concat(Tail(chunks))

\* the text of a byte sequence decoded in one piece
TextOf(bytes) ==
    LET decoded == decode(<<>>, bytes, <<>>) IN decoded.text \o decodeFlush(decoded.pending)

\* the lines of a text: each run of characters that a line feed ends, empty
\* ones too, and what follows the last line feed when it is not empty
RECURSIVE LinesOfText(_, _)
LinesOfText(text, line) ==
    IF text = <<>> THEN (IF line = <<>> THEN <<>> ELSE <<line>>)
    ELSE IF Head(text) = NewLine THEN <<line>> \o LinesOfText(Tail(text), <<>>)
    ELSE LinesOfText(Tail(text), Append(line, Head(text)))

\* C39: the lines readLines yields are those of the concatenated text,
\* however the stream is cut into chunks: every line a line feed ends, in
\* order, empty lines included, and the unterminated rest exactly when it is
\* not empty; what it has yielded before the end is a prefix of them.
ReadLinesIgnoresChunking ==
    pc \in {"readLines", "readLinesDone"} =>
        LET lines == LinesOfText(TextOf(Concat(pureIn.chunks)), <<>>) IN
        /\ Len(pureOut.yielded) <= Len(lines)
        /\ pureOut.yielded = SubSeq(lines, 1, Len(pureOut.yielded))
        /\ pc = "readLinesDone" => pureOut.yielded = lines

\* a character cut by a chunk boundary, an empty line and an unterminated
\* last line, read to the end
ReadLinesAcrossChunks ==
    /\ pc = "readLinesDone"
    /\ pureIn.chunks = << <<195>>, <<169, 10>>, <<10, 97>> >>
    /\ pureOut.yielded = << <<"U+00E9">>, <<>>, <<"a">> >>

====
